---- MODULE Spec2Model ----
(***************************************************************************)
(* Model of the templated doubly linked list LL<retT> of include/ll.h.     *)
(*                                                                         *)
(* Nodes live in a heap indexed by node address; element storage is        *)
(* identified by its address.  Address 0 is the null pointer, which is     *)
(* also the value the operations return for "none".                        *)
(***************************************************************************)
EXTENDS Integers, Sequences, FiniteSets, TLC

\* ---- bounds -------------------------------------------------------------
MaxNodes == 3        \* node allocations (new node [1]) in one behaviour
MaxAddr  == 2        \* addresses of element storage
MaxVal   == 2        \* values of the element type retT
MaxLoc   == 3        \* largest position passed to remove / pop
MaxIterCalls == 4    \* calls of next / previous on one iterator

NULL == 0

NodeId == 1..MaxNodes
Addr   == 1..MaxAddr
Values == 1..MaxVal
Locs   == 0..MaxLoc

NoVal == 0

\* struct node { void *data; node *prv; node *next; bool remove; }
node == [data : Addr \cup {NULL}, prv : NodeId \cup {NULL},
         next : NodeId \cup {NULL}, remove : BOOLEAN]

VARIABLES
    head,      \* LL::_head
    heap,      \* contents of every node address
    nstate,    \* per node address: "unused", "live" (new'ed), "deleted"
    released,  \* per storage address: number of times the list deleted it
    content,   \* value held by the storage the value forms allocated
    owner,     \* per storage address: "none", "caller" (borrowed), "list"
    alive,     \* the LL object is constructed and not yet destructed
    call,      \* the last completed call: operation, arguments, result
    it,        \* the live LL_ITERATOR: its _current and the calls it served
    step       \* the statement a call in progress has reached, and its locals

vars == <<head, heap, nstate, released, content, owner, alive, call, it,
          step>>

\* the part of the state that the member functions of LL read and write
Cur == [head |-> head, heap |-> heap, nstate |-> nstate,
        released |-> released, content |-> content]

\* ---- allocation ---------------------------------------------------------
\* new node [1]: an address that holds no node yet
NewNode(L) == CHOOSE n \in NodeId :
                 /\ L.nstate[n] = "unused"
                 /\ \A m \in NodeId : L.nstate[m] = "unused" => n <= m

CanNewNode(L) == \E n \in NodeId : L.nstate[n] = "unused"

\* new retT: an address no storage was seen at yet
NewStorage == CHOOSE a \in Addr :
                 /\ owner[a] = "none"
                 /\ \A b \in Addr : owner[b] = "none" => a <= b

CanNewStorage == \E a \in Addr : owner[a] = "none"

\* mutant: the ownership flag is not consulted
DeleteData_always(L, n) ==
    LET d == L.heap[n].data IN
    IF d # NULL THEN [L EXCEPT !.released[d] = @ + 1] ELSE L

\* delete current->data (delete of the null pointer does nothing)
DeleteData(L, n) ==
    LET d == L.heap[n].data IN
    IF L.heap[n].remove /\ d # NULL
    THEN [L EXCEPT !.released[d] = @ + 1]
    ELSE L

\* mutant: the node is unlinked but never deleted
DeleteNode_leak(L, n) == L

\* delete [] current: the node's memory is gone, its old fields with it
DeleteNode(L, n) ==
    [L EXCEPT !.nstate[n] = "deleted",
              !.heap[n] = [data |-> NULL, prv |-> NULL,
                           next |-> NULL, remove |-> FALSE]]

\* ---- LL::length ---------------------------------------------------------
RECURSIVE lengthFrom(_, _)
lengthFrom(L, current) ==
    IF current = NULL THEN 0
    ELSE 1 + lengthFrom(L, L.heap[current].next)

length(L) == lengthFrom(L, L.head)

\* ---- LL::push -----------------------------------------------------------
\* mutant: the old head does not learn its new predecessor
pushNode_noback(L, data, rm) ==
    LET new_node == NewNode(L)
        L1 == [L EXCEPT !.nstate[new_node] = "live",
                        !.heap[new_node] = [data |-> data, prv |-> NULL,
                                            next |-> L.head, remove |-> rm]]
        L3 == [L1 EXCEPT !.head = new_node]
    IN  [L |-> L3, ret |-> L3.heap[L3.head].data]

\* push(retT *data, bool remove); the value form passes the fresh copy
pushNode(L, data, rm) ==
    LET new_node == NewNode(L)
        L1 == [L EXCEPT !.nstate[new_node] = "live",
                        !.heap[new_node] = [data |-> data, prv |-> NULL,
                                            next |-> L.head, remove |-> rm]]
        L2 == IF L.head # NULL
              THEN [L1 EXCEPT !.heap[L.head].prv = new_node]
              ELSE L1
        L3 == [L2 EXCEPT !.head = new_node]
    IN  [L |-> L3, ret |-> L3.heap[L3.head].data]

\* push(retT data): the copy at pointer receives the bytes w that memcpy
\* reads at the address held in data, then the node is pushed as owned
pushValue(L, pointer, w) ==
    pushNode([L EXCEPT !.content[pointer] = w], pointer, TRUE)

\* ---- LL::append ---------------------------------------------------------
\* mutant: the end of the list is not looked for
lastFrom_nowalk(L, current) == current

RECURSIVE lastFrom(_, _)
lastFrom(L, current) ==
    IF L.heap[current].next # NULL
    THEN lastFrom(L, L.heap[current].next)
    ELSE current

\* mutant: a non-empty list answers with the data of its head
appendNode_retHead(L, data, rm) ==
    LET new_node == NewNode(L)
        L1 == [L EXCEPT !.nstate[new_node] = "live",
                        !.heap[new_node] = [data |-> data, prv |-> NULL,
                                            next |-> NULL, remove |-> rm]]
    IN  IF L.head = NULL
        THEN LET L2 == [L1 EXCEPT !.head = new_node]
             IN  [L |-> L2, ret |-> L2.heap[L2.head].data]
        ELSE LET current == lastFrom(L1, L1.head)
                 L2 == [L1 EXCEPT !.heap[current].next = new_node,
                                  !.heap[new_node].prv = current]
             IN  [L |-> L2, ret |-> L2.heap[L2.head].data]

appendNode(L, data, rm) ==
    LET new_node == NewNode(L)
        L1 == [L EXCEPT !.nstate[new_node] = "live",
                        !.heap[new_node] = [data |-> data, prv |-> NULL,
                                            next |-> NULL, remove |-> rm]]
    IN  IF L.head = NULL
        THEN LET L2 == [L1 EXCEPT !.head = new_node]
             IN  [L |-> L2, ret |-> L2.heap[L2.head].data]
        ELSE LET current == lastFrom(L1, L1.head)
                 L2 == [L1 EXCEPT !.heap[current].next = new_node,
                                  !.heap[new_node].prv = current]
             IN  [L |-> L2, ret |-> L2.heap[L2.heap[current].next].data]

\* append(retT data): the copy at pointer receives the argument v itself
appendValue(L, pointer, v) ==
    appendNode([L EXCEPT !.content[pointer] = v], pointer, TRUE)

\* ---- LL::remove ---------------------------------------------------------
\* the node reached after i steps of  current = current->next
RECURSIVE walk(_, _, _)
walk(L, current, i) ==
    IF i = 0 THEN current ELSE walk(L, L.heap[current].next, i - 1)

\* return (retT*)_head->data;
retHead(L) == [L |-> L, ret |-> L.heap[L.head].data]

\* mutant: the data of the removed member is returned
removeHead_retRemoved(L) ==
    LET current == L.head
        old == L.heap[current].data
        L1 == [L EXCEPT !.head = L.heap[current].next]
        L2 == DeleteNode(DeleteData(L1, current), current)
    IN  IF L2.head = NULL
        THEN [L |-> L2, ret |-> NULL]
        ELSE [L |-> [L2 EXCEPT !.heap[L2.head].prv = NULL], ret |-> old]

\* the branch  loc == 0
removeHead(L) ==
    LET current == L.head
        L1 == [L EXCEPT !.head = L.heap[current].next]
        L2 == DeleteNode(DeleteData(L1, current), current)
    IN  IF L2.head = NULL
        THEN [L |-> L2, ret |-> NULL]
        ELSE retHead([L2 EXCEPT !.heap[L2.head].prv = NULL])

\* mutant: the predecessor keeps pointing at the deleted node
removeInner_nounlink(L, loc) ==
    LET prev    == walk(L, L.head, loc - 1)
        current == L.heap[prev].next
        L2 == IF L.heap[current].next # NULL
              THEN [L EXCEPT !.heap[L.heap[current].next].prv = prev]
              ELSE L
    IN  retHead(DeleteNode(DeleteData(L2, current), current))

\* the branch  loc != 0
removeInner(L, loc) ==
    LET prev    == walk(L, L.head, loc - 1)
        current == L.heap[prev].next
        L1 == [L EXCEPT !.heap[prev].next = L.heap[current].next]
        L2 == IF L1.heap[current].next # NULL
              THEN [L1 EXCEPT !.heap[L1.heap[current].next].prv = prev]
              ELSE L1
    IN  retHead(DeleteNode(DeleteData(L2, current), current))

\* mutant: a location past the end removes the last member
remove_clamp(L, loc) ==
    IF L.head = NULL THEN [L |-> L, ret |-> NULL]
    ELSE IF loc < length(L)
         THEN IF loc = 0 THEN removeHead(L) ELSE removeInner(L, loc)
         ELSE IF length(L) = 1 THEN removeHead(L)
              ELSE removeInner(L, length(L) - 1)

remove(L, loc) ==
    IF L.head = NULL THEN [L |-> L, ret |-> NULL]
    ELSE IF loc < length(L)
         THEN IF loc = 0 THEN removeHead(L) ELSE removeInner(L, loc)
         ELSE retHead(L)

\* ---- LL::pop ------------------------------------------------------------
\* mutant: locations count from 1, as in the usage example of the header
pop_onebased(L, loc) ==
    IF loc >= length(L) \/ L.head = NULL
    THEN NULL
    ELSE L.heap[walk(L, L.head, IF loc = 0 THEN 0 ELSE loc - 1)].data

pop(L, loc) ==
    IF loc >= length(L) \/ L.head = NULL
    THEN NULL
    ELSE L.heap[walk(L, L.head, loc)].data

\* ---- LL::clear ----------------------------------------------------------
\* for(int i = length()-1; i >= 0; i--) remove(i);
RECURSIVE clearFrom(_, _)
clearFrom(L, i) ==
    IF i >= 0 THEN clearFrom(remove(L, i).L, i - 1) ELSE L

\* mutant: the loop starts one member short of the end
clear_short(L) == clearFrom(L, length(L) - 2)

clear(L) == clearFrom(L, length(L) - 1)

\* ---- LL::~LL ------------------------------------------------------------
\* while(remove(0) != nullptr);
RECURSIVE destruct(_)
destruct(L) ==
    LET r == remove(L, 0) IN
    IF r.ret # NULL THEN destruct(r.L) ELSE r.L

\* ---- state --------------------------------------------------------------
\* no call is in progress
Idle == [pc |-> "idle", new_node |-> NULL, current |-> NULL, prev |-> NULL,
         data |-> NULL, rm |-> FALSE]

\* no iterator has been created, or the caller has deleted it
NoIter == [live |-> FALSE, cur |-> NULL, hist |-> <<>>]

NoCall == [op |-> "new", form |-> "none", arg |-> 0, rm |-> FALSE,
           ret |-> NULL]

Init ==
    /\ head = NULL
    /\ heap = [n \in NodeId |-> [data |-> NULL, prv |-> NULL,
                                 next |-> NULL, remove |-> FALSE]]
    /\ nstate = [n \in NodeId |-> "unused"]
    /\ released = [a \in Addr |-> 0]
    /\ content = [a \in Addr |-> NoVal]
    /\ owner = [a \in Addr |-> "none"]
    /\ alive = TRUE
    /\ call = NoCall
    /\ it = NoIter
    /\ step = Idle

Install(L) ==
    /\ head' = L.head
    /\ heap' = L.heap
    /\ nstate' = L.nstate
    /\ released' = L.released
    /\ content' = L.content

\* The caller hands storage to the list.  A borrowed reference may be
\* inserted any number of times; ownership of a storage is given once,
\* for storage the list has not seen before.  Either form may pass nullptr.
\* Storage the list has not seen before is named by the lowest address not
\* yet in use, as the storage of new retT is: which address a new storage
\* has makes no difference to the list.
Unseen(a) == owner[a] = "none" /\ a = NewStorage

Borrowable(a) == IF a = NULL THEN TRUE
                 ELSE owner[a] = "caller" \/ Unseen(a)
Givable(a)    == IF a = NULL THEN TRUE ELSE Unseen(a)

Handed(a, rm) ==
    IF a = NULL THEN owner
    ELSE [owner EXCEPT ![a] = IF rm THEN "list" ELSE "caller"]

\* push(retT data): memcpy(pointer, data, sizeof(retT)) reads its source
\* AT the address the argument holds, so the copy receives the retT-sized
\* bytes w that the caller's memory has there, whatever they are
PushValue(v, w) ==
    /\ alive /\ ~it.live /\ UNCHANGED <<it, step>> /\ CanNewNode(Cur) /\ CanNewStorage
    /\ LET pointer == NewStorage
           r  == pushValue(Cur, pointer, w)
       IN  /\ Install(r.L)
           /\ owner' = [owner EXCEPT ![pointer] = "list"]
           /\ call' = [op |-> "push", form |-> "value", arg |-> v,
                       rm |-> TRUE, ret |-> r.ret]
    /\ UNCHANGED alive

PushRef(a, rm) ==
    /\ alive /\ ~it.live /\ UNCHANGED <<it, step>> /\ CanNewNode(Cur)
    /\ IF rm THEN Givable(a) ELSE Borrowable(a)
    /\ LET r == pushNode(Cur, a, rm)
       IN  /\ Install(r.L)
           /\ owner' = Handed(a, rm)
           /\ call' = [op |-> "push", form |-> "ref", arg |-> a,
                       rm |-> rm, ret |-> r.ret]
    /\ UNCHANGED alive

\* append(retT data): memcpy(pointer, &data, sizeof(retT))
AppendValue(v) ==
    /\ alive /\ ~it.live /\ UNCHANGED <<it, step>> /\ CanNewNode(Cur) /\ CanNewStorage
    /\ LET pointer == NewStorage
           r  == appendValue(Cur, pointer, v)
       IN  /\ Install(r.L)
           /\ owner' = [owner EXCEPT ![pointer] = "list"]
           /\ call' = [op |-> "append", form |-> "value", arg |-> v,
                       rm |-> TRUE, ret |-> r.ret]
    /\ UNCHANGED alive

AppendRef(a, rm) ==
    /\ alive /\ ~it.live /\ UNCHANGED <<it, step>> /\ CanNewNode(Cur)
    /\ IF rm THEN Givable(a) ELSE Borrowable(a)
    /\ LET r == appendNode(Cur, a, rm)
       IN  /\ Install(r.L)
           /\ owner' = Handed(a, rm)
           /\ call' = [op |-> "append", form |-> "ref", arg |-> a,
                       rm |-> rm, ret |-> r.ret]
    /\ UNCHANGED alive

Remove(loc) ==
    /\ alive /\ ~it.live /\ UNCHANGED <<it, step>>
    /\ LET r == remove(Cur, loc)
       IN  /\ Install(r.L)
           /\ call' = [op |-> "remove", form |-> "none", arg |-> loc,
                       rm |-> FALSE, ret |-> r.ret]
    /\ UNCHANGED <<owner, alive>>

\* mutant: pop takes the member out, as a stack pop would
Pop_takes(loc) ==
    /\ alive /\ ~it.live /\ UNCHANGED <<it, step>>
    /\ Install(remove(Cur, loc).L)
    /\ call' = [op |-> "pop", form |-> "none", arg |-> loc,
                rm |-> FALSE, ret |-> pop(Cur, loc)]
    /\ UNCHANGED <<owner, alive>>

Pop(loc) ==
    /\ alive /\ ~it.live /\ UNCHANGED <<it, step>>
    /\ call' = [op |-> "pop", form |-> "none", arg |-> loc,
                rm |-> FALSE, ret |-> pop(Cur, loc)]
    /\ UNCHANGED <<head, heap, nstate, released, content, owner, alive>>

Length ==
    /\ alive /\ ~it.live /\ UNCHANGED <<it, step>>
    /\ call' = [op |-> "length", form |-> "none", arg |-> 0,
                rm |-> FALSE, ret |-> length(Cur)]
    /\ UNCHANGED <<head, heap, nstate, released, content, owner, alive>>

Clear ==
    /\ alive /\ ~it.live /\ UNCHANGED <<it, step>>
    /\ Install(clear(Cur))
    /\ call' = [op |-> "clear", form |-> "none", arg |-> 0,
                rm |-> FALSE, ret |-> NULL]
    /\ UNCHANGED <<owner, alive>>

Destroy ==
    /\ alive /\ ~it.live /\ UNCHANGED <<it, step>>
    /\ Install(destruct(Cur))
    /\ alive' = FALSE
    /\ call' = [op |-> "destroy", form |-> "none", arg |-> 0,
                rm |-> FALSE, ret |-> NULL]
    /\ UNCHANGED owner

\* ---- LL_ITERATOR --------------------------------------------------------
\* mutant: next steps forward first and answers with the node it lands on
itNext_stepFirst(L, current) ==
    IF current = NULL THEN [cur |-> NULL, ret |-> NULL]
    ELSE IF L.heap[current].next = NULL THEN [cur |-> NULL, ret |-> NULL]
    ELSE [cur |-> L.heap[current].next,
          ret |-> L.heap[L.heap[current].next].data]

\* mutant: next never leaves the last node
itNext_clamp(L, current) ==
    IF current = NULL THEN [cur |-> NULL, ret |-> NULL]
    ELSE IF L.heap[current].next = NULL
         THEN [cur |-> current, ret |-> L.heap[current].data]
         ELSE [cur |-> L.heap[current].next, ret |-> L.heap[current].data]

\* LL_ITERATOR::next on an iterator whose _current is current
itNext(L, current) ==
    IF current = NULL THEN [cur |-> NULL, ret |-> NULL]
    ELSE [cur |-> L.heap[current].next, ret |-> L.heap[current].data]

\* mutant: previous steps back first and answers with the node it lands on
itPrevious_stepFirst(L, current) ==
    IF current = NULL THEN [cur |-> NULL, ret |-> NULL]
    ELSE IF L.heap[current].prv = NULL THEN [cur |-> NULL, ret |-> NULL]
    ELSE [cur |-> L.heap[current].prv,
          ret |-> L.heap[L.heap[current].prv].data]

\* LL_ITERATOR::previous
itPrevious(L, current) ==
    IF current = NULL THEN [cur |-> NULL, ret |-> NULL]
    ELSE [cur |-> L.heap[current].prv, ret |-> L.heap[current].data]

\* LL::create_iterator: new LL_ITERATOR<retT>(_head).  The list is not to
\* be changed while the iterator is in use, so the caller's list calls
\* wait until the iterator is deleted.
CreateIterator ==
    /\ alive /\ ~it.live
    /\ it' = [live |-> TRUE, cur |-> head, hist |-> <<>>]
    /\ call' = [op |-> "create_iterator", form |-> "none", arg |-> 0,
                rm |-> FALSE, ret |-> NULL]
    /\ UNCHANGED <<head, heap, nstate, released, content, owner, alive, step>>

\* the caller deletes the iterator it was given
DeleteIterator ==
    /\ it.live
    /\ it' = NoIter
    /\ UNCHANGED <<head, heap, nstate, released, content, owner, alive, call,
                   step>>

ItNext ==
    /\ it.live /\ Len(it.hist) < MaxIterCalls
    /\ LET r == itNext(Cur, it.cur)
       IN  it' = [it EXCEPT !.cur = r.cur,
                            !.hist = Append(@, [op |-> "next", at |-> it.cur,
                                                ret |-> r.ret])]
    /\ UNCHANGED <<head, heap, nstate, released, content, owner, alive, call,
                   step>>

ItPrevious ==
    /\ it.live /\ Len(it.hist) < MaxIterCalls
    /\ LET r == itPrevious(Cur, it.cur)
       IN  it' = [it EXCEPT !.cur = r.cur,
                            !.hist = Append(@, [op |-> "previous",
                                                at |-> it.cur, ret |-> r.ret])]
    /\ UNCHANGED <<head, heap, nstate, released, content, owner, alive, call,
                   step>>

Next ==
    \/ \E v \in Values, w \in Values : PushValue(v, w)
    \/ \E a \in Addr \cup {NULL}, rm \in BOOLEAN : PushRef(a, rm)
    \/ \E v \in Values : AppendValue(v)
    \/ \E a \in Addr \cup {NULL}, rm \in BOOLEAN : AppendRef(a, rm)
    \/ \E loc \in Locs : Remove(loc)
    \/ \E loc \in Locs : Pop(loc)
    \/ Length
    \/ Clear
    \/ Destroy
    \/ CreateIterator
    \/ DeleteIterator

Spec == Init /\ [][Next]_vars

\* a list built from references, then walked by one iterator
NextIt ==
    \/ \E a \in Addr \cup {NULL}, rm \in BOOLEAN : PushRef(a, rm)
    \/ \E a \in Addr \cup {NULL}, rm \in BOOLEAN : AppendRef(a, rm)
    \/ \E loc \in Locs : Remove(loc)
    \/ CreateIterator
    \/ ItNext
    \/ ItPrevious

SpecIt == Init /\ [][NextIt]_vars

\* ---- push, append and remove, one statement at a time ------------------
\* Each pointer write and each delete of the reference forms is a step of
\* its own; reads and writes of locals go with the step before them.
AtPc(p) == alive /\ step.pc = p

Goto(p) == step' = [step EXCEPT !.pc = p]

\* return: the call is complete with result r
Return(op, arg, rm, r) ==
    /\ step' = Idle
    /\ call' = [op |-> op, form |-> IF op = "remove" THEN "none" ELSE "ref",
                arg |-> arg, rm |-> rm, ret |-> r]

\* node *new_node = new node [1]: the link fields of the new node hold
\* whatever the memory held.  (So do data and remove; nothing reads them
\* before they are written and no property looks at them, so they are
\* shown as null and false until then.)
Alloc(p, a, rm) ==
    /\ AtPc("idle") /\ ~it.live /\ CanNewNode(Cur)
    /\ IF rm THEN Givable(a) ELSE Borrowable(a)
    /\ \E p0 \in NodeId \cup {NULL}, n0 \in NodeId \cup {NULL} :
          /\ heap' = [heap EXCEPT ![NewNode(Cur)] =
                         [data |-> NULL, prv |-> p0, next |-> n0,
                          remove |-> FALSE]]
          /\ nstate' = [nstate EXCEPT ![NewNode(Cur)] = "live"]
    /\ owner' = Handed(a, rm)
    /\ step' = [pc |-> p, new_node |-> NewNode(Cur), current |-> head,
                prev |-> NULL, data |-> a, rm |-> rm]
    /\ UNCHANGED <<head, released, content, alive, call, it>>

\* a write to one field of one node
Write(n, f, v) ==
    /\ heap' = [heap EXCEPT ![n][f] = v]
    /\ UNCHANGED <<head, nstate, released, content, owner, alive, it>>

\* push(retT *data, bool remove)
PushAlloc(a, rm) == Alloc("push_remove", a, rm)

PushSetRemove ==
    /\ AtPc("push_remove")
    /\ Write(step.new_node, "remove", step.rm)
    /\ Goto("push_next") /\ UNCHANGED call

PushSetNext ==
    /\ AtPc("push_next")
    /\ Write(step.new_node, "next", head)
    /\ Goto("push_prv") /\ UNCHANGED call

PushSetPrv ==
    /\ AtPc("push_prv")
    /\ Write(step.new_node, "prv", NULL)
    /\ Goto("push_back") /\ UNCHANGED call

\* if(_head != 0){ _head->prv = new_node; }
PushLinkBack ==
    /\ AtPc("push_back")
    /\ IF head # NULL
       THEN Write(head, "prv", step.new_node)
       ELSE UNCHANGED <<head, heap, nstate, released, content, owner,
                        alive, it>>
    /\ Goto("push_data") /\ UNCHANGED call

PushSetData ==
    /\ AtPc("push_data")
    /\ Write(step.new_node, "data", step.data)
    /\ Goto("push_head") /\ UNCHANGED call

\* _head = new_node; return (retT*)_head->data;
PushSetHead ==
    /\ AtPc("push_head")
    /\ head' = step.new_node
    /\ Return("push", step.data, step.rm, heap[step.new_node].data)
    /\ UNCHANGED <<heap, nstate, released, content, owner, alive, it>>

\* append(retT *data, bool remove)
AppendAlloc(a, rm) == Alloc("app_remove", a, rm)

AppendSetRemove ==
    /\ AtPc("app_remove")
    /\ Write(step.new_node, "remove", step.rm)
    /\ Goto("app_data") /\ UNCHANGED call

AppendSetData ==
    /\ AtPc("app_data")
    /\ Write(step.new_node, "data", step.data)
    /\ Goto("app_next") /\ UNCHANGED call

\* new_node->next = 0; then the test for the empty list and the search
\* for the end of the list, which write locals only
AppendSetNext ==
    /\ AtPc("app_next")
    /\ Write(step.new_node, "next", NULL)
    /\ step' = IF step.current = NULL
               THEN [step EXCEPT !.pc = "app_empty_prv"]
               ELSE [step EXCEPT !.pc = "app_link",
                                 !.current = lastFrom(Cur, head)]
    /\ UNCHANGED call

AppendEmptySetPrv ==
    /\ AtPc("app_empty_prv")
    /\ Write(step.new_node, "prv", NULL)
    /\ Goto("app_empty_head") /\ UNCHANGED call

AppendEmptySetHead ==
    /\ AtPc("app_empty_head")
    /\ head' = step.new_node
    /\ Return("append", step.data, step.rm, heap[step.new_node].data)
    /\ UNCHANGED <<heap, nstate, released, content, owner, alive, it>>

\* current->next = new_node;
AppendLink ==
    /\ AtPc("app_link")
    /\ Write(step.current, "next", step.new_node)
    /\ Goto("app_prv") /\ UNCHANGED call

\* new_node->prv = current; return (retT*)current->next->data;
AppendSetPrv ==
    /\ AtPc("app_prv")
    /\ Write(step.new_node, "prv", step.current)
    /\ Return("append", step.data, step.rm,
              heap[heap[step.current].next].data)

\* remove(uint32_t loc) up to its first write: the tests for the empty
\* list and for the range, and the walk to the member
RemoveEnter(loc) ==
    /\ AtPc("idle") /\ ~it.live
    /\ IF head = NULL
       THEN Return("remove", loc, FALSE, NULL)
       ELSE IF ~(loc < length(Cur))
       THEN Return("remove", loc, FALSE, heap[head].data)
       ELSE /\ step' = IF loc = 0
                       THEN [Idle EXCEPT !.pc = "rh_move", !.current = head,
                                         !.data = loc]
                       ELSE [Idle EXCEPT !.pc = "ri_unlink",
                               !.prev = walk(Cur, head, loc - 1),
                               !.current = walk(Cur, head, loc),
                               !.data = loc]
            /\ UNCHANGED call
    /\ UNCHANGED <<head, heap, nstate, released, content, owner, alive, it>>

\* _head = current->next;
RemoveHeadMove ==
    /\ AtPc("rh_move")
    /\ head' = heap[step.current].next
    /\ Goto("rh_data")
    /\ UNCHANGED <<heap, nstate, released, content, owner, alive, call, it>>

\* if(current->remove) { delete current->data; }
RemoveHeadDeleteData ==
    /\ AtPc("rh_data")
    /\ released' = DeleteData(Cur, step.current).released
    /\ Goto("rh_node")
    /\ UNCHANGED <<head, heap, nstate, content, owner, alive, call, it>>

\* delete [] current;
RemoveHeadDeleteNode ==
    /\ AtPc("rh_node")
    /\ heap' = DeleteNode(Cur, step.current).heap
    /\ nstate' = DeleteNode(Cur, step.current).nstate
    /\ Goto("rh_prv")
    /\ UNCHANGED <<head, released, content, owner, alive, call, it>>

\* if(_head == 0) { return nullptr; }  _head->prv = 0;  return _head->data
RemoveHeadClearPrv ==
    /\ AtPc("rh_prv")
    /\ IF head = NULL
       THEN /\ Return("remove", step.data, FALSE, NULL)
            /\ UNCHANGED <<head, heap, nstate, released, content, owner,
                           alive, it>>
       ELSE /\ Write(head, "prv", NULL)
            /\ Return("remove", step.data, FALSE, heap[head].data)

\* mutant: the predecessor keeps pointing at the member to delete
RemoveInnerUnlink_forgot ==
    /\ AtPc("ri_unlink")
    /\ Goto("ri_relink")
    /\ UNCHANGED <<head, heap, nstate, released, content, owner, alive,
                   call, it>>

\* prev->next = current->next;
RemoveInnerUnlink ==
    /\ AtPc("ri_unlink")
    /\ Write(step.prev, "next", heap[step.current].next)
    /\ Goto("ri_relink") /\ UNCHANGED call

\* if (current->next != nullptr) { current->next->prv = prev; }
RemoveInnerRelink ==
    /\ AtPc("ri_relink")
    /\ IF heap[step.current].next # NULL
       THEN Write(heap[step.current].next, "prv", step.prev)
       ELSE UNCHANGED <<head, heap, nstate, released, content, owner,
                        alive, it>>
    /\ Goto("ri_data") /\ UNCHANGED call

RemoveInnerDeleteData ==
    /\ AtPc("ri_data")
    /\ released' = DeleteData(Cur, step.current).released
    /\ Goto("ri_node")
    /\ UNCHANGED <<head, heap, nstate, content, owner, alive, call, it>>

\* delete [] current;  return (retT*)_head->data;
RemoveInnerDeleteNode ==
    /\ AtPc("ri_node")
    /\ heap' = DeleteNode(Cur, step.current).heap
    /\ nstate' = DeleteNode(Cur, step.current).nstate
    /\ Return("remove", step.data, FALSE, heap[head].data)
    /\ UNCHANGED <<head, released, content, owner, alive, it>>

NextStep ==
    \/ \E a \in Addr \cup {NULL}, rm \in BOOLEAN : PushAlloc(a, rm)
    \/ PushSetRemove
    \/ PushSetNext
    \/ PushSetPrv
    \/ PushLinkBack
    \/ PushSetData
    \/ PushSetHead
    \/ \E a \in Addr \cup {NULL}, rm \in BOOLEAN : AppendAlloc(a, rm)
    \/ AppendSetRemove
    \/ AppendSetData
    \/ AppendSetNext
    \/ AppendEmptySetPrv
    \/ AppendEmptySetHead
    \/ AppendLink
    \/ AppendSetPrv
    \/ \E loc \in Locs : RemoveEnter(loc)
    \/ RemoveHeadMove
    \/ RemoveHeadDeleteData
    \/ RemoveHeadDeleteNode
    \/ RemoveHeadClearPrv
    \/ RemoveInnerUnlink
    \/ RemoveInnerRelink
    \/ RemoveInnerDeleteData
    \/ RemoveInnerDeleteNode

SpecStep == Init /\ [][NextStep]_vars

TypeOK ==
    /\ head \in NodeId \cup {NULL}
    /\ heap \in [NodeId -> node]
    /\ nstate \in [NodeId -> {"unused", "live", "deleted"}]
    /\ released \in [Addr -> Nat]
    /\ content \in [Addr -> Values \cup {NoVal}]
    /\ owner \in [Addr -> {"none", "caller", "list"}]
    /\ alive \in BOOLEAN
    /\ it.cur \in NodeId \cup {NULL}
    /\ step.new_node \in NodeId \cup {NULL}

\* ---- observations used by the properties -------------------------------
\* the element references met from the head along the next links
RECURSIVE elementsFrom(_, _)
elementsFrom(L, current) ==
    IF current = NULL THEN <<>>
    ELSE <<L.heap[current].data>> \o elementsFrom(L, L.heap[current].next)

Elements == elementsFrom(Cur, head)

Created == {n \in NodeId : nstate[n] # "unused"}
Deleted == {n \in NodeId : nstate[n] = "deleted"}
Live    == {n \in NodeId : nstate[n] = "live"}

\* the node addresses met from the head along the next links, followed
\* for at most fuel steps; the walk stops at the null pointer
RECURSIVE chainFrom(_, _, _)
chainFrom(L, current, fuel) ==
    IF current = NULL \/ fuel = 0 THEN <<>>
    ELSE <<current>> \o chainFrom(L, L.heap[current].next, fuel - 1)

Chain == chainFrom(Cur, head, MaxNodes + 1)

Reachable == {Chain[i] : i \in 1..Len(Chain)}

\* the walk from the head meets no node twice and ends at the null pointer
Acyclic ==
    /\ Len(Chain) <= MaxNodes
    /\ \A i, j \in 1..Len(Chain) : Chain[i] = Chain[j] => i = j

\* a sequence without its element at the zero-based position i
Without(s, i) == [k \in 1..(Len(s) - 1) |-> IF k <= i THEN s[k] ELSE s[k + 1]]

\* the element an insertion call stores: the reference passed in, or the
\* storage the value form allocates for its copy
Inserted == IF call'.form = "ref" THEN call'.arg ELSE NewStorage

\* ---- properties --------------------------------------------------------

\* C1: the head-to-tail order of the elements follows the abstract
\* sequence: it starts empty, push puts the element at position 0, append
\* puts it after the last one, remove(position) with an in-range position
\* deletes exactly that position and an out-of-range one deletes nothing.
C1_OrderRefinesSequence ==
    /\ Elements = <<>>
    /\ [][ /\ call'.op = "push" => Elements' = <<Inserted>> \o Elements
           /\ call'.op = "append" => Elements' = Elements \o <<Inserted>>
           /\ call'.op = "remove" =>
                 Elements' = IF call'.arg < Len(Elements)
                             THEN Without(Elements, call'.arg)
                             ELSE Elements ]_vars

\* a member was removed from between two others
C1_Witness ==
    /\ call.op = "remove" /\ call.arg = 1
    /\ Len(Elements) = 2 /\ Cardinality(Deleted) = 1
    /\ Elements[1] # Elements[2]

C3_LengthCountsCalls ==
    /\ length(Cur) = 0
    /\ [][ /\ call'.op \in {"push", "append"} =>
                 length(Cur)' = length(Cur) + 1
           /\ call'.op = "remove" =>
                 length(Cur)' = IF call'.arg < length(Cur)
                                THEN length(Cur) - 1
                                ELSE length(Cur) ]_vars

\* three insertions and one removal leave two members
C3_Witness ==
    /\ call.op = "remove"
    /\ Cardinality(Created) = 3 /\ Cardinality(Deleted) = 1
    /\ length(Cur) = 2

\* C4: storage handed over with take_ownership = false is never released
\* by the list.
C4_BorrowedNeverReleased ==
    \A a \in Addr : owner[a] = "caller" => released[a] = 0

\* the only member ever inserted was borrowed and has been removed
C4_Witness ==
    /\ \E a \in Addr : owner[a] = "caller"
    /\ Cardinality(Created) = 1 /\ Cardinality(Deleted) = 1
    /\ call.op \in {"remove", "clear", "destroy"}

\* C5: storage the list owns is released at most once, and exactly once
\* when the list has been torn down.
C5_OwnedReleasedOnce ==
    \A a \in Addr : owner[a] = "list" =>
        /\ released[a] <= 1
        /\ ~alive => released[a] = 1

\* C6: after the destructor no node of the list is still allocated.
C6_TeardownRemovesAll ==
    ~alive => Live = {}

\* C7: when remove(0) returns none the list has no members left.
C7_NoneMeansEmpty ==
    (call.op = "remove" /\ call.arg = 0 /\ call.ret = NULL) =>
        (head = NULL /\ length(Cur) = 0)

\* C8: remove with an out-of-range position changes nothing and returns
\* the element of the current head, or none when the list is empty.
C8_OutOfRangeRemoveIsNoOp ==
    [][ (call'.op = "remove" /\ call'.arg >= length(Cur)) =>
          /\ UNCHANGED <<head, heap, nstate, released, content, owner>>
          /\ call'.ret = IF head = NULL THEN NULL ELSE heap[head].data ]_vars

\* an out-of-range remove on a list of two members returned the head
C8_Witness ==
    /\ call.op = "remove" /\ call.arg >= length(Cur)
    /\ length(Cur) = 2 /\ call.ret # NULL /\ call.ret = heap[head].data

\* C9: remove with an in-range position leaves as head the former second
\* member when the position is 0 and the same head otherwise, and returns
\* the element of that head, or none when no member is left.
C9_RemoveReturnsNewHead ==
    [][ (call'.op = "remove" /\ call'.arg < length(Cur)) =>
          /\ head' = IF call'.arg = 0 THEN heap[head].next ELSE head
          /\ call'.ret = IF head' = NULL THEN NULL ELSE heap'[head'].data ]_vars

\* remove(0) returned the element of the former second member
C9_Witness ==
    /\ call.op = "remove" /\ call.arg = 0
    /\ Cardinality(Deleted) = 1 /\ Cardinality(Live) = 2
    /\ call.ret # NULL /\ call.ret = heap[head].data

\* C10: after push(v) the copy that pop(0) refers to holds v.
C10_PushValueRoundTrip ==
    (call.op = "push" /\ call.form = "value") =>
        content[pop(Cur, 0)] = call.arg

\* C11: on the empty list append and push are the same operation, for the
\* reference form and for the value form: same list, same stored element
\* value and ownership flag, same result.
C11_AppendIsPushOnEmpty ==
    (alive /\ head = NULL /\ CanNewNode(Cur) /\ CanNewStorage) =>
        /\ \A a \in Addr \cup {NULL}, rm \in BOOLEAN :
              appendNode(Cur, a, rm) = pushNode(Cur, a, rm)
        /\ \A v \in Values, w \in Values :
              appendValue(Cur, NewStorage, v) = pushValue(Cur, NewStorage, w)

\* C12: after clear() the list is empty: length() is 0, pop(0) is none, no
\* node is left allocated, every storage the list has owned is released
\* once and no borrowed storage is released.
C12_ClearEmpties ==
    call.op = "clear" =>
        /\ length(Cur) = 0 /\ pop(Cur, 0) = NULL
        /\ Live = {}
        /\ \A a \in Addr : owner[a] = "list" => released[a] = 1
        /\ \A a \in Addr : owner[a] = "caller" => released[a] = 0

\* clear() destroyed three members, owned storage among them
C12_Witness ==
    /\ call.op = "clear" /\ Cardinality(Deleted) = 3
    /\ \E a \in Addr : owner[a] = "list"
    /\ \E a \in Addr : owner[a] = "caller"

\* C13: pop(position) changes nothing in the list, whether the position is
\* in range or not.
C13_PopIsReadOnly ==
    [][ call'.op = "pop" =>
          UNCHANGED <<head, heap, nstate, released, content, owner>> ]_vars

\* pop found a member past the head and the list still has it
C13_Witness ==
    /\ call.op = "pop" /\ call.arg = 1 /\ call.ret # NULL
    /\ Len(Elements) = 2 /\ Elements[2] = call.ret

\* C16: push and append return the reference of the element they insert:
\* the reference passed in, or the storage of the new copy; it is what
\* pop(0) gives after push and pop(length() - 1) after append.
C16_InsertReturnsElement ==
    [][ /\ call'.op = "push" =>
             (call'.ret = Inserted /\ call'.ret = pop(Cur, 0)')
        /\ call'.op = "append" =>
             (call'.ret = Inserted /\ call'.ret = pop(Cur, length(Cur) - 1)')
      ]_vars

\* append returned the new last element of a list of three
C16_Witness ==
    /\ call.op = "append" /\ Len(Elements) = 3
    /\ call.ret # NULL /\ call.ret = Elements[3] /\ call.ret # Elements[1]

\* C17: after every completed operation the head has no previous node,
\* every other node is the next of its previous node, every node is the
\* previous of its next node, and the chain from the head is acyclic and
\* ends at the null pointer.
C17_LinksConsistent ==
    /\ Acyclic
    /\ head # NULL => heap[head].prv = NULL
    /\ \A n \in Reachable :
          /\ n # head => /\ heap[n].prv # NULL
                         /\ heap[heap[n].prv].next = n
          /\ heap[n].next # NULL => heap[heap[n].next].prv = n

\* a list of two members after one of three was removed
C17_Witness ==
    /\ call.op = "remove" /\ Cardinality(Deleted) = 1
    /\ Len(Chain) = 2 /\ heap[Chain[2]].prv = head

\* C20: after every completed operation the nodes allocated and not yet
\* deleted are exactly the nodes reachable from the head along next.
C20_LiveIsReachable ==
    Live = Reachable

\* one node was deleted and two remain, both reachable
C20_Witness ==
    /\ Cardinality(Deleted) = 1 /\ Cardinality(Live) = 2
    /\ Len(Chain) = 2 /\ call.op \in {"remove", "push", "append"}

\* ---- iterator properties -----------------------------------------------
Hist == it.hist

\* the calls 1..k of the iterator were all calls of next
OnlyNext(k) == \A j \in 1..k : Hist[j].op = "next"

\* _current after the i-th call
After(i) == IF i < Len(Hist) THEN Hist[i + 1].at ELSE it.cur

\* the position in the chain of a node of the list
PosOf(n) == CHOOSE k \in 1..Len(Chain) : Chain[k] = n

\* C14: an iterator used with next() only returns the n elements of the
\* list in head-to-tail order on its first n calls and none on every later
\* call, the cursor staying terminal.
C14_NextWalksForward ==
    (it.live /\ OnlyNext(Len(Hist))) =>
        /\ \A i \in 1..Len(Hist) :
              Hist[i].ret = IF i <= Len(Elements) THEN Elements[i] ELSE NULL
        /\ \A i \in 1..Len(Hist) : i >= Len(Elements) => After(i) = NULL

\* next() gave the three elements and then none
C14_Witness ==
    /\ it.live /\ Len(Hist) = 4 /\ OnlyNext(4) /\ Len(Elements) = 3
    /\ Hist[1].ret # NULL /\ Hist[2].ret # NULL /\ Hist[3].ret # NULL
    /\ Hist[1].ret # Hist[2].ret /\ Hist[4].ret = NULL

\* C15, as claimed: on a non-empty list (of non-null references, so that
\* none from next() means the end), previous() called right after a next()
\* that returned none returns an element of the list, not none.
C15_PreviousAfterNoneGivesElement ==
    (it.live /\ Len(Elements) > 0
        /\ \A k \in 1..Len(Elements) : Elements[k] # NULL) =>
        \A i \in 1..(Len(Hist) - 1) :
            (Hist[i].op = "next" /\ Hist[i].ret = NULL
                /\ Hist[i + 1].op = "previous") =>
              /\ Hist[i + 1].ret # NULL
              /\ \E k \in 1..Len(Elements) : Elements[k] = Hist[i + 1].ret

\* C15, amended: once next() has run past the end of the list (more calls
\* of next than the list has elements), previous() returns none and the
\* cursor stays terminal.
C15_PreviousAfterEndGivesNone ==
    it.live =>
        \A i \in 2..Len(Hist) :
            (Hist[i].op = "previous" /\ OnlyNext(i - 1)
                /\ i - 1 > Len(Elements)) =>
              (Hist[i].ret = NULL /\ After(i) = NULL)

\* two elements, three calls of next, then previous
C15_Witness ==
    /\ it.live /\ Len(Elements) = 2 /\ Len(Hist) = 4 /\ OnlyNext(3)
    /\ Hist[2].ret # NULL /\ Hist[3].ret = NULL
    /\ Hist[4].op = "previous" /\ Hist[4].ret = NULL

\* C19: previous() returns the element at the cursor and then moves the
\* cursor one node toward the head; on a fresh iterator it returns the
\* head element and leaves the iterator terminal, and next(), previous(),
\* next() return the first, the second and the first element.
C19_PreviousReadsThenSteps ==
    it.live =>
        /\ \A i \in 1..Len(Hist) :
              (Hist[i].op = "previous" /\ Hist[i].at # NULL) =>
                LET k == PosOf(Hist[i].at) IN
                /\ Hist[i].ret = Elements[k]
                /\ After(i) = IF k = 1 THEN NULL ELSE Chain[k - 1]
        /\ (Len(Hist) >= 1 /\ Hist[1].op = "previous" /\ Len(Elements) >= 1) =>
              (Hist[1].ret = Elements[1] /\ After(1) = NULL)
        /\ (Len(Hist) >= 3 /\ Len(Elements) >= 2 /\ Hist[1].op = "next"
                /\ Hist[2].op = "previous" /\ Hist[3].op = "next") =>
              /\ Hist[1].ret = Elements[1]
              /\ Hist[2].ret = Elements[2]
              /\ Hist[3].ret = Elements[1]

\* next(), previous(), next() on three elements gave first, second, first
C19_Witness ==
    /\ it.live /\ Len(Elements) = 3 /\ Len(Hist) = 3
    /\ Hist[1].op = "next" /\ Hist[2].op = "previous" /\ Hist[3].op = "next"
    /\ Elements[1] # Elements[2] /\ Elements[1] # NULL /\ Elements[2] # NULL
    /\ Hist[2].ret = Elements[2] /\ Hist[3].ret = Elements[1]

\* ---- statement-level properties ----------------------------------------
\* C18, as claimed: in every state, those between two statements of push,
\* append and remove included, the head has no previous node, prv and next
\* of neighbours agree, and no link of a node reachable from the head
\* refers to a deleted node.
C18_EveryStepConsistent ==
    /\ head # NULL => heap[head].prv = NULL
    /\ \A n \in Reachable :
          /\ nstate[n] = "live"
          /\ n # head => /\ heap[n].prv # NULL
                         /\ nstate[heap[n].prv] = "live"
                         /\ heap[heap[n].prv].next = n
          /\ heap[n].next # NULL => /\ nstate[heap[n].next] = "live"
                                   /\ heap[heap[n].next].prv = n

\* C18, amended: in every state, those between two statements included,
\* the next links from the head form an acyclic chain of allocated nodes
\* that ends at the null pointer; the prv links agree with it whenever no
\* call is in progress.
C18_ForwardChainIntact ==
    /\ Acyclic
    /\ \A n \in Reachable : nstate[n] = "live"
    /\ step.pc = "idle" =>
          /\ head # NULL => heap[head].prv = NULL
          /\ \A n \in Reachable :
                /\ n # head => /\ heap[n].prv # NULL
                               /\ heap[heap[n].prv].next = n
                /\ heap[n].next # NULL => heap[heap[n].next].prv = n

\* inside remove(0): the old head is deleted and the new head still names
\* it as its previous node
C18_Witness ==
    /\ step.pc = "rh_prv" /\ head # NULL
    /\ heap[head].prv # NULL /\ nstate[heap[head].prv] = "deleted"
    /\ Len(Chain) = 2
====
